---- MODULE Spec2Model ----
(***************************************************************************)
(* Model of the dependency resolver of src/src/lib.rs (struct Dependy).    *)
(*                                                                         *)
(* The graph is daggy's Dag<K, DepEdge>: a vector of node weights and a    *)
(* vector of edges in insertion order.  Dag::add_edge inserts the edge     *)
(* unless it would close a directed cycle, in which case the graph is left *)
(* as it was and WouldCycle is returned.  Dag::parents walks the incoming  *)
(* edges of a node most recently added first (petgraph adjacency lists).   *)
(***************************************************************************)
EXTENDS Integers, Sequences, FiniteSets, TLC

\* ---------------------------------------------------------------- bounds
MaxUnits == 3       \* add_dependency calls
MaxDecls == 3       \* requirement + suggestion + provides entries, all units
MaxRoots == 2       \* length of the list handed to resolve
MaxCalls == 2       \* resolve calls
MaxSize == 4        \* units + declaration entries of a resolver that is
                    \* resolved more than once

\* K: the keys units are named, aliased and referred to by
KeyOrder == <<"a", "b", "c", "d">>
Keys == {KeyOrder[i] : i \in 1..Len(KeyOrder)}

Requires == "Requires"
Suggests == "Suggests"
Follows == "Follows"

\* ------------------------------------------------------------- utilities
SeqsUpTo(S, n) == UNION {[1..m -> S] : m \in 0..n}

Range(s) == {s[i] : i \in 1..Len(s)}

Put(m, k, v) == [q \in DOMAIN m \cup {k} |-> IF q = k THEN v ELSE m[q]]

EmptyMap == [q \in {} |-> 0]

\* HashMap::insert for every element of a list, in list order
RECURSIVE PutAll(_, _, _)
PutAll(m, ks, v) ==
    IF ks = <<>> THEN m ELSE PutAll(Put(m, Head(ks), v), Tail(ks), v)

IndexOf(s, x) ==
    IF \E i \in 1..Len(s) : s[i] = x
    THEN CHOOSE i \in 1..Len(s) : s[i] = x /\ \A j \in 1..(i - 1) : s[j] # x
    ELSE 0

\* ----------------------------------------------------------------- state
VARIABLES
    nodes,          \* graph: node weights, NodeIndex = position
    edges,          \* graph: edges [src, dst, kind] in insertion order
    node_bucket,    \* HashMap<K, NodeIndex>
    provides_map,   \* HashMap<K, K>
    requirements,   \* HashMap<K, Vec<K>>
    suggestions,    \* HashMap<K, Vec<K>>
    dep_map,        \* HashMap<K, InternalDependency<K>>
    ndecls,         \* declaration entries registered so far
    ncalls,         \* resolve calls made so far
    reregistered,   \* names handed to add_dependency more than once
    realiased,      \* keys provided as an alias more than once
    rewritten,      \* keys inserted into node_bucket more than once
    call            \* the resolve call that returned last, if nothing
                    \* was registered since

vars == <<nodes, edges, node_bucket, provides_map, requirements, suggestions,
          dep_map, ndecls, ncalls, reregistered, realiased, rewritten, call>>

NoCall == [status |-> "None", roots |-> <<>>, order |-> <<>>, visited |-> <<>>,
           err |-> <<>>, before |-> <<>>, expanded |-> <<>>, repeat |-> FALSE]

\* ----------------------------------------------------------- graph (Dag)
Edge(a, b, w) == [src |-> a, dst |-> b, kind |-> w]

\* find_edge as it would be if the graph never reported an existing edge
find_edge_never(es, a, b) == FALSE

\* find_edge as it would be if it looked for the edge from b to a
find_edge_reversed(es, a, b) == \E i \in 1..Len(es) : es[i].src = b /\ es[i].dst = a

find_edge(es, a, b) == \E i \in 1..Len(es) : es[i].src = a /\ es[i].dst = b

RECURSIVE Reach(_, _)
Reach(es, S) ==
    LET T == S \cup {es[i].dst : i \in {j \in 1..Len(es) : es[j].src \in S}}
    IN IF T = S THEN S ELSE Reach(es, T)

\* a path of zero or more edges leads from a to b
HasPath(es, a, b) == b \in Reach(es, {a})

WouldCycle(es, a, b) == HasPath(es, b, a)

\* add_edge as it would be without the cycle check
add_edge_unchecked(es, a, b, w) == [ok |-> TRUE, edges |-> Append(es, Edge(a, b, w))]

add_edge(es, a, b, w) ==
    IF WouldCycle(es, a, b)
    THEN [ok |-> FALSE, edges |-> es]
    ELSE [ok |-> TRUE, edges |-> Append(es, Edge(a, b, w))]

\* the (edge, parent) pairs Dag::parents yields, most recent edge first
RECURSIVE parents(_, _)
parents(es, n) ==
    IF es = <<>> THEN <<>>
    ELSE LET k == Len(es)
             rest == parents(SubSeq(es, 1, k - 1), n)
         IN IF es[k].dst = n THEN <<es[k]>> \o rest ELSE rest

Acyclic(es) == \A i \in 1..Len(es) : ~HasPath(es, es[i].dst, es[i].src)

\* -------------------------------------------------------- add_dependency
\* the keys some registered unit provides
Aliases == UNION {Range(dep_map[n].provides) : n \in DOMAIN dep_map}

Repeated(ks) == {ks[i] : i \in {j \in 1..Len(ks) : \E h \in 1..(j - 1) : ks[h] = ks[j]}}

\* add_dependency as it would be if it did not file the requirement list
add_dependency_unlisted(name, reqs, sugs, provs) ==
    LET new_node == Len(nodes) + 1
        written == {name} \cup Range(provs)
    IN /\ nodes' = Append(nodes, name)
       /\ node_bucket' = PutAll(Put(node_bucket, name, new_node), provs, new_node)
       /\ provides_map' = PutAll(Put(provides_map, name, name), provs, name)
       /\ dep_map' = Put(dep_map, name, [name |-> name, requirements |-> reqs,
                                          suggestions |-> sugs, provides |-> provs])
       /\ suggestions' = Put(suggestions, name, sugs)
       /\ requirements' = requirements
       /\ reregistered' = reregistered \cup ({name} \cap DOMAIN dep_map)
       /\ realiased' = realiased \cup (Range(provs) \cap Aliases)
                           \cup Repeated(provs)
       /\ rewritten' = rewritten \cup (written \cap DOMAIN node_bucket)
                           \cup Repeated(<<name>> \o provs)
       /\ ndecls' = ndecls + Len(reqs) + Len(sugs) + Len(provs)
       /\ call' = NoCall
       /\ UNCHANGED <<edges, ncalls>>

add_dependency(name, reqs, sugs, provs) ==
    LET new_node == Len(nodes) + 1
        written == {name} \cup Range(provs)
    IN /\ nodes' = Append(nodes, name)
       /\ node_bucket' = PutAll(Put(node_bucket, name, new_node), provs, new_node)
       /\ provides_map' = PutAll(Put(provides_map, name, name), provs, name)
       /\ dep_map' = Put(dep_map, name, [name |-> name, requirements |-> reqs,
                                          suggestions |-> sugs, provides |-> provs])
       /\ suggestions' = Put(suggestions, name, sugs)
       /\ requirements' = Put(requirements, name, reqs)
       /\ reregistered' = reregistered \cup ({name} \cap DOMAIN dep_map)
       /\ realiased' = realiased \cup (Range(provs) \cap Aliases)
                           \cup Repeated(provs)
       /\ rewritten' = rewritten \cup (written \cap DOMAIN node_bucket)
                           \cup Repeated(<<name>> \o provs)
       /\ ndecls' = ndecls + Len(reqs) + Len(sugs) + Len(provs)
       /\ call' = NoCall
       /\ UNCHANGED <<edges, ncalls>>

\* ------------------------------------------ resolve_named_dependencies
\* The work queue unfolds the declarations breadth first, so every name the
\* roots reach is expanded for the first time within TreeSize iterations per
\* root; a loop still running after that never meets an error and never
\* empties the queue.
RECURSIVE Pow(_, _)
Pow(b, e) == IF e = 0 THEN 1 ELSE b * Pow(b, e - 1)

RECURSIVE TreeSize(_, _)
TreeSize(width, depth) ==
    IF depth = 0 THEN 0 ELSE Pow(width, depth - 1) + TreeSize(width, depth - 1)

LoopLimit(deps) == Len(deps) * TreeSize(MaxDecls, Cardinality(DOMAIN dep_map) + 1)

\* the error of an unknown key as it would be with the two kinds exchanged
NotFoundError_exchanged(kind) ==
    IF kind = Requires THEN "SuggestionNotFound" ELSE "RequirementNotFound"

\* the error of a key that node_bucket does not hold: lines 158 and 183
NotFoundError(kind) ==
    IF kind = Requires THEN "RequirementNotFound" ELSE "SuggestionNotFound"

\* the `for req in *reqs` loops: lines 154-172 (Requires) and 180-196 (Suggests)
RECURSIVE ExpandList(_, _, _, _, _, _)
ExpandList(dep_name, reqs, i, kind, to_resolve, es) ==
    IF i > Len(reqs) THEN [err |-> <<>>, to_resolve |-> to_resolve, edges |-> es]
    ELSE
      LET req == reqs[i]
          pushed == Append(to_resolve, req)
      IN IF req \notin DOMAIN node_bucket
         THEN [err |-> <<NotFoundError(kind), dep_name, req>>,
               to_resolve |-> pushed, edges |-> es]
         ELSE
           LET target == node_bucket[req]
               me == node_bucket[dep_name]
           IN IF find_edge(es, target, me)
              THEN ExpandList(dep_name, reqs, i + 1, kind, pushed, es)
              ELSE IF WouldCycle(es, target, me)
              THEN [err |-> <<"CircularDependency", dep_name, req>>,
                    to_resolve |-> pushed, edges |-> es]
              ELSE ExpandList(dep_name, reqs, i + 1, kind, pushed,
                              add_edge(es, target, me, kind).edges)

\* the `loop` of lines 138-199; expanded is the list of names it expanded
RECURSIVE ResolveLoop(_, _, _, _)
ResolveLoop(to_resolve, es, fuel, expanded) ==
    IF to_resolve = <<>>
    THEN [status |-> "Ok", err |-> <<>>, edges |-> es, expanded |-> expanded]
    ELSE IF fuel = 0
    THEN [status |-> "Diverged", err |-> <<>>, edges |-> es, expanded |-> expanded]
    ELSE
      LET key == Head(to_resolve)
          rest == Tail(to_resolve)
          Fail(e, g, x) == [status |-> "Err", err |-> e, edges |-> g, expanded |-> x]
      IN IF key \notin DOMAIN provides_map
         THEN Fail(<<"DependencyNotFound", key>>, es, expanded)
         ELSE
           LET dep_name == provides_map[key]
               log == Append(expanded, dep_name)
           IN IF dep_name \notin DOMAIN requirements
              THEN Fail(<<"RequirementsNotFound", dep_name>>, es, expanded)
              ELSE
                LET r1 == ExpandList(dep_name, requirements[dep_name], 1,
                                     Requires, rest, es)
                IN IF r1.err # <<>> THEN Fail(r1.err, r1.edges, log)
                   ELSE IF dep_name \notin DOMAIN suggestions
                   THEN Fail(<<"SuggestionsNotFound", dep_name>>, r1.edges, log)
                   ELSE
                     LET r2 == ExpandList(dep_name, suggestions[dep_name], 1,
                                          Suggests, r1.to_resolve, r1.edges)
                     IN IF r2.err # <<>> THEN Fail(r2.err, r2.edges, log)
                        ELSE ResolveLoop(r2.to_resolve, r2.edges, fuel - 1, log)

\* the Follows loop as it would be with the edge drawn from this to previous
RECURSIVE AddFollows_backwards(_, _, _)
AddFollows_backwards(dependencies, i, es) ==
    IF i > Len(dependencies) THEN [err |-> <<>>, edges |-> es]
    ELSE
      LET previous_dep == dependencies[i - 1]
          this_dep == dependencies[i]
      IN IF previous_dep \notin DOMAIN node_bucket
         THEN [err |-> <<"DependencyNotFound", previous_dep>>, edges |-> es]
         ELSE IF this_dep \notin DOMAIN node_bucket
         THEN [err |-> <<"DependencyNotFound", this_dep>>, edges |-> es]
         ELSE
           LET previous_edge == node_bucket[previous_dep]
               this_edge == node_bucket[this_dep]
           IN IF find_edge(es, this_edge, previous_edge)
              THEN AddFollows_backwards(dependencies, i + 1, es)
              ELSE AddFollows_backwards(dependencies, i + 1,
                       add_edge(es, this_edge, previous_edge, Follows).edges)

\* the `for i in 1..num_deps` loop of lines 201-223
RECURSIVE AddFollows(_, _, _)
AddFollows(dependencies, i, es) ==
    IF i > Len(dependencies) THEN [err |-> <<>>, edges |-> es]
    ELSE
      LET previous_dep == dependencies[i - 1]
          this_dep == dependencies[i]
      IN IF previous_dep \notin DOMAIN node_bucket
         THEN [err |-> <<"DependencyNotFound", previous_dep>>, edges |-> es]
         ELSE IF this_dep \notin DOMAIN node_bucket
         THEN [err |-> <<"DependencyNotFound", this_dep>>, edges |-> es]
         ELSE
           LET previous_edge == node_bucket[previous_dep]
               this_edge == node_bucket[this_dep]
           IN IF find_edge(es, previous_edge, this_edge)
              THEN AddFollows(dependencies, i + 1, es)
              ELSE AddFollows(dependencies, i + 1,
                              add_edge(es, previous_edge, this_edge, Follows).edges)

\* visit_node, lines 252-285; st is [seen, dep_order] and trail, the nodes
\* whose weights dep_order holds
RECURSIVE visit_node(_, _, _)
RECURSIVE VisitParents(_, _, _)

\* visit_node as it would be if it pushed the node before its parents
visit_node_preorder(es, st, node) ==
    IF node \in st.seen THEN st
    ELSE VisitParents(es, [seen |-> st.seen \cup {node},
                           dep_order |-> Append(st.dep_order, nodes[node]),
                           trail |-> Append(st.trail, node)],
                      parents(es, node))

visit_node(es, st, node) ==
    IF node \in st.seen THEN st
    ELSE
      LET marked == [seen |-> st.seen \cup {node}, dep_order |-> st.dep_order,
                     trail |-> st.trail]
          done == VisitParents(es, marked, parents(es, node))
      IN [seen |-> done.seen, dep_order |-> Append(done.dep_order, nodes[node]),
          trail |-> Append(done.trail, node)]

VisitParents(es, st, to_visit) ==
    IF to_visit = <<>> THEN st
    ELSE VisitParents(es, visit_node(es, st, Head(to_visit).src), Tail(to_visit))

\* the `for dep_name in dependencies` loop of lines 225-235
RECURSIVE SortOrder(_, _, _)
SortOrder(dependencies, es, st) ==
    IF dependencies = <<>> THEN st
    ELSE SortOrder(Tail(dependencies), es,
                   visit_node(es, st, node_bucket[Head(dependencies)]))

\* the whole of resolve_named_dependencies as a function of the list
ResolveResult(dependencies) ==
    LET l == ResolveLoop(dependencies, edges, LoopLimit(dependencies), <<>>)
    IN IF l.status # "Ok"
       THEN [status |-> l.status, err |-> l.err, edges |-> l.edges,
             order |-> <<>>, visited |-> <<>>, expanded |-> l.expanded]
       ELSE
         LET f == AddFollows(dependencies, 2, l.edges)
         IN IF f.err # <<>>
            THEN [status |-> "Err", err |-> f.err, edges |-> f.edges,
                  order |-> <<>>, visited |-> <<>>, expanded |-> l.expanded]
            ELSE
              LET st == SortOrder(dependencies, f.edges,
                                  [seen |-> {}, dep_order |-> <<>>, trail |-> <<>>])
              IN [status |-> "Ok", err |-> <<>>, edges |-> f.edges,
                  order |-> st.dep_order, visited |-> st.trail,
                  expanded |-> l.expanded]

\* resolve as it would be if a failing call put the edges back
resolve_named_dependencies_undo(dependencies) ==
    \E r \in {ResolveResult(dependencies)} :
       /\ edges' = IF r.status = "Err" THEN edges ELSE r.edges
       /\ ncalls' = ncalls + 1
       /\ call' = [status |-> r.status, roots |-> dependencies,
                   order |-> r.order, visited |-> r.visited, err |-> r.err,
                   before |-> edges,
                   expanded |-> r.expanded,
                   repeat |-> call.status = "Ok" /\ call.roots = dependencies]
       /\ UNCHANGED <<nodes, node_bucket, provides_map, requirements,
                      suggestions, dep_map, ndecls, reregistered, realiased,
                      rewritten>>

resolve_named_dependencies(dependencies) ==
    \E r \in {ResolveResult(dependencies)} :
       /\ edges' = r.edges
       /\ ncalls' = ncalls + 1
       /\ call' = [status |-> r.status, roots |-> dependencies,
                   order |-> r.order, visited |-> r.visited, err |-> r.err,
                   before |-> edges,
                   expanded |-> r.expanded,
                   repeat |-> call.status = "Ok" /\ call.roots = dependencies]
       /\ UNCHANGED <<nodes, node_bucket, provides_map, requirements,
                      suggestions, dep_map, ndecls, reregistered, realiased,
                      rewritten>>

\* required_parents_of_named, lines 296-306
required_parents_of_named(name) ==
    LET IsRequires(e) == e.kind = Requires
        ps == SelectSeq(parents(edges, node_bucket[name]), IsRequires)
    IN [i \in 1..Len(ps) |-> nodes[ps[i].src]]

\* ------------------------------------------------------------ behaviours
Init ==
    /\ nodes = <<>>
    /\ edges = <<>>
    /\ node_bucket = EmptyMap
    /\ provides_map = EmptyMap
    /\ requirements = EmptyMap
    /\ suggestions = EmptyMap
    /\ dep_map = EmptyMap
    /\ ndecls = 0
    /\ ncalls = 0
    /\ reregistered = {}
    /\ realiased = {}
    /\ rewritten = {}
    /\ call = NoCall

\* K is opaque to the resolver (Clone + Eq + Hash), so behaviours that differ
\* by a renaming of keys are the same behaviour: a key that the resolver has
\* not met yet is always the first such key of KeyOrder.
Used ==
    DOMAIN node_bucket
    \cup UNION {Range(requirements[n]) : n \in DOMAIN requirements}
    \cup UNION {Range(suggestions[n]) : n \in DOMAIN suggestions}

FirstUnused(S) ==
    IF Keys \subseteq S THEN 0
    ELSE CHOOSE i \in 1..Len(KeyOrder) :
           /\ KeyOrder[i] \notin S
           /\ \A j \in 1..(i - 1) : KeyOrder[j] \in S

Canonical(ks) ==
    \A i \in 1..Len(ks) :
       LET met == Used \cup {ks[j] : j \in 1..(i - 1)}
       IN IF ks[i] \in met THEN TRUE ELSE ks[i] = KeyOrder[FirstUnused(met)]

Running == call.status # "Diverged"

Size == Len(nodes) + ndecls

Register ==
    /\ Running
    /\ Len(nodes) < MaxUnits
    /\ \E name \in Keys :
       \E reqs \in SeqsUpTo(Keys, MaxDecls - ndecls) :
       \E sugs \in SeqsUpTo(Keys, MaxDecls - ndecls - Len(reqs)) :
       \E provs \in SeqsUpTo(Keys, MaxDecls - ndecls - Len(reqs) - Len(sugs)) :
         /\ Canonical(<<name>> \o reqs \o sugs \o provs)
         /\ add_dependency(name, reqs, sugs, provs)

Resolve ==
    /\ Running
    /\ ncalls < MaxCalls
    /\ ncalls > 0 => Size <= MaxSize
    /\ \E dependencies \in SeqsUpTo(Keys, MaxRoots) :
         /\ Canonical(dependencies)
         /\ resolve_named_dependencies(dependencies)

Next == Register \/ Resolve

Spec == Init /\ [][Next]_vars

\* ------------------------------------------------------------ properties
\* The call record describes the resolve call that has just returned.
Ok == call.status = "Ok"

InOrder(n) == \E i \in 1..Len(call.order) : call.order[i] = n

\* index of an identity in the returned order, of a node in the visit
Pos(n) == IndexOf(call.order, n)
NodePos(n) == IndexOf(call.visited, n)

\* a key resolved through the alias mapping
Known(k) == k \in DOMAIN provides_map
Canon(k) == provides_map[k]
CanonSet(ks) == {Canon(k) : k \in Range(ks) \cap DOMAIN provides_map}

\* what a unit declares, keys resolved through aliases
DeclReqs(n) == IF n \in DOMAIN requirements THEN CanonSet(requirements[n]) ELSE {}
DeclSugs(n) == IF n \in DOMAIN suggestions THEN CanonSet(suggestions[n]) ELSE {}
DeclAny(n) == DeclReqs(n) \cup DeclSugs(n)
KeysNamed(n) == Range(requirements[n]) \cup Range(suggestions[n])

RECURSIVE Closure(_, _)
Closure(Step(_), S) ==
    LET T == S \cup UNION {Step(n) : n \in S}
    IN IF T = S THEN S ELSE Closure(Step, T)

TransReqs(n) == Closure(DeclReqs, DeclReqs(n))
TransAny(n) == Closure(DeclAny, DeclAny(n))

RootsKnown == \A i \in 1..Len(call.roots) : Known(call.roots[i])
RootNames ==
    {Canon(call.roots[i]) : i \in {j \in 1..Len(call.roots) : Known(call.roots[j])}}
Reached == Closure(DeclAny, RootNames)
Cyclic == \E n \in Reached : n \in TransAny(n)
NoDecls ==
    \A n \in DOMAIN requirements : requirements[n] = <<>> /\ suggestions[n] = <<>>
NewEdges == {edges[i] : i \in (Len(call.before) + 1)..Len(edges)}
BothVisited(e) == NodePos(e.src) > 0 /\ NodePos(e.dst) > 0

\* C1: on a resolver where each identity was registered once, a successful
\* resolve puts A before B in the order whenever both are in it and B requires
\* A, directly or transitively, requirement keys resolved through aliases.
C1_RequirementsPrecede ==
    (Ok /\ reregistered = {}) =>
       \A B \in Range(call.order) :
          \A A \in Range(call.order) \cap TransReqs(B) : Pos(A) < Pos(B)

\* C2: when a resolve call succeeds, every edge of the graph, of any kind and
\* whenever it was inserted, whose two end nodes were both visited has its
\* source in the order before its target.
C2_EdgesOrdered ==
    Ok => \A i \in 1..Len(edges) :
            BothVisited(edges[i]) => NodePos(edges[i].src) < NodePos(edges[i].dst)

C2_Witness ==
    /\ Ok
    /\ ncalls = 2
    /\ \E i \in 1..Len(call.before) :
         edges[i].kind = Follows /\ BothVisited(edges[i])
    /\ \E e \in NewEdges : e.kind = Requires /\ BothVisited(e)

\* C3: a successful resolve returns an order that holds the canonical identity
\* of every root and, for every identity in it, the canonical identity of each
\* requirement and each suggestion that identity declares.
C3_OrderClosed ==
    Ok =>
      /\ \A i \in 1..Len(call.roots) : InOrder(Canon(call.roots[i]))
      /\ \A n \in Range(call.order) :
            \A k \in KeysNamed(n) : Known(k) /\ InOrder(Canon(k))

\* C4: every element of a returned order is the identity of a registered unit;
\* when a unit X of the order names a requirement by an alias, the identity
\* that provides the alias is in the order before X; when a root is an alias,
\* the identity that provides it is in the order.
C4_AliasesResolved ==
    Ok =>
      /\ \A n \in Range(call.order) : n \in DOMAIN dep_map
      /\ \A X \in Range(call.order) : \A k \in Range(requirements[X]) :
            (Known(k) /\ Canon(k) # k) =>
               (InOrder(Canon(k)) /\ Pos(Canon(k)) < Pos(X))
      /\ \A i \in 1..Len(call.roots) :
            Canon(call.roots[i]) # call.roots[i] => InOrder(Canon(call.roots[i]))

\* C5: on the first resolve call of a resolver, roots that name pairwise
\* distinct registered units none of which requires or suggests another root,
\* directly or transitively, come out in the relative order of the list; when
\* no unit declares anything the call succeeds and the order is the root list.
Independent ==
    /\ RootsKnown
    /\ \A i, j \in 1..Len(call.roots) : i # j =>
          /\ Canon(call.roots[i]) # Canon(call.roots[j])
          /\ Canon(call.roots[j]) \notin TransAny(Canon(call.roots[i]))

C5_RootOrderKept ==
    (call.status # "None" /\ ncalls = 1 /\ Independent) =>
       /\ Ok => \A i, j \in 1..Len(call.roots) :
                   i < j => Pos(Canon(call.roots[i])) < Pos(Canon(call.roots[j]))
       /\ NoDecls =>
            /\ Ok
            /\ call.order = [i \in 1..Len(call.roots) |-> Canon(call.roots[i])]

C5_Witness ==
    /\ Ok /\ ncalls = 1 /\ Independent
    /\ Len(call.roots) = 2
    /\ Len(call.order) = 3
    /\ \E e \in NewEdges : e.kind = Follows

\* C6: when the root list places P before T and P requires or suggests T,
\* directly or transitively, a successful resolve places T before P and
\* inserts no Follows edge from P to T, and a failing one fails in the
\* expansion of the declarations.
RootPair(i, j) ==
    /\ i < j
    /\ Known(call.roots[i]) /\ Known(call.roots[j])
    /\ Canon(call.roots[j]) # Canon(call.roots[i])
    /\ Canon(call.roots[j]) \in TransAny(Canon(call.roots[i]))

C6_DeclarationsWin ==
    \A i, j \in 1..Len(call.roots) : RootPair(i, j) =>
       /\ Ok => /\ Pos(Canon(call.roots[j])) < Pos(Canon(call.roots[i]))
                /\ ~\E e \in NewEdges :
                      /\ e.kind = Follows
                      /\ nodes[e.src] = Canon(call.roots[i])
                      /\ nodes[e.dst] = Canon(call.roots[j])
       /\ call.status = "Err" =>
            ResolveLoop(call.roots, call.before, LoopLimit(call.roots),
                        <<>>).status = "Err"

\* C7: when the declarations reachable from the roots contain a cycle and
\* every key they name is registered, resolve returns CircularDependency with
\* the identity being expanded and the key whose edge was rejected, and no
\* order.
C7_CycleReported ==
    (/\ call.status # "None"
     /\ RootsKnown
     /\ \A n \in Reached : \A k \in KeysNamed(n) : Known(k)
     /\ Cyclic)
    => /\ call.status = "Err"
       /\ call.err[1] = "CircularDependency"
       /\ call.err[2] \in Reached
       /\ call.err[3] \in KeysNamed(call.err[2])
       /\ call.order = <<>>

\* C8: a resolve call returns CircularDependency only if the declarations
\* reachable from its roots, keys resolved through the alias mapping as it
\* stands, contain a cycle.
C8_OnlyDeclaredCycles ==
    (call.status = "Err" /\ call.err[1] = "CircularDependency") => Cyclic

\* C9: a resolve call that follows a successful one with the same root list,
\* nothing registered in between, succeeds, returns the same order and leaves
\* the edges of the graph as they were.
C9_Idempotent ==
    [][(Ok /\ ncalls' = ncalls + 1 /\ call'.roots = call.roots)
         => (call'.status = "Ok" /\ call'.order = call.order /\ edges' = edges)]_vars

C9_Witness ==
    /\ Ok /\ call.repeat
    /\ \E i \in 1..Len(edges) : edges[i].kind = Follows
    /\ \E i \in 1..Len(edges) : edges[i].kind = Requires

\* C10: where each identity and each alias was registered once, after a
\* successful resolve required_parents_of_named(B) holds, for every B of the
\* order, exactly the canonical identities of the requirements B declares.
C10_RequiredParents ==
    (Ok /\ reregistered = {} /\ realiased = {}) =>
       \A B \in Range(call.order) :
          /\ \A k \in Range(requirements[B]) : Known(k)
          /\ Range(required_parents_of_named(B)) = DeclReqs(B)

\* C11: the order a successful resolve call returns, earlier calls or not,
\* holds only canonical identities of the roots and of what they require or
\* suggest, directly or transitively; the order of a single root that is a
\* registered unit declaring nothing is that unit alone.
LoneRoot ==
    /\ Len(call.roots) = 1
    /\ Known(call.roots[1])
    /\ Canon(call.roots[1]) = call.roots[1]
    /\ requirements[call.roots[1]] = <<>>
    /\ suggestions[call.roots[1]] = <<>>

C11_OnlyReachable ==
    /\ Ok => Range(call.order) \subseteq Reached
    /\ (call.status # "None" /\ LoneRoot) => (Ok /\ call.order = call.roots)

\* C12: a resolve call whose root list holds a key that is neither a
\* registered identity nor a registered alias returns an error and no order;
\* when every key the registered units name is registered and the declarations
\* reachable from the roots have no cycle, the error is DependencyNotFound
\* carrying an unknown root.
Unknown(k) == k \notin DOMAIN provides_map

UnknownRoot == \E i \in 1..Len(call.roots) : Unknown(call.roots[i])

AllNamedKnown == \A n \in DOMAIN requirements : \A k \in KeysNamed(n) : Known(k)

C12_UnknownRootFails ==
    (call.status # "None" /\ UnknownRoot) =>
       /\ call.status = "Err"
       /\ call.order = <<>>
       /\ (AllNamedKnown /\ ~Cyclic) =>
             /\ call.err[1] = "DependencyNotFound"
             /\ call.err[2] \in Range(call.roots)
             /\ Unknown(call.err[2])

\* C13: when a unit that resolve expanded declares a requirement or suggestion
\* key that is neither a registered identity nor a registered alias, the call
\* fails with RequirementNotFound or SuggestionNotFound carrying an expanded
\* unit and its unknown key of that list; DependencyNotFound carries a root.
Last(s) == s[Len(s)]

HasUnknown == \E n \in Range(call.expanded) : \E k \in KeysNamed(n) : Unknown(k)

NotFoundReported ==
    /\ call.err[1] \in {"RequirementNotFound", "SuggestionNotFound"}
    /\ call.err[2] \in Range(call.expanded)
    /\ Unknown(call.err[3])
    /\ call.err[1] = "RequirementNotFound" =>
          call.err[3] \in Range(requirements[call.err[2]])
    /\ call.err[1] = "SuggestionNotFound" =>
          call.err[3] \in Range(suggestions[call.err[2]])

RootNotFound ==
    (call.status = "Err" /\ call.err[1] = "DependencyNotFound") =>
       (call.err[2] \in Range(call.roots) /\ Unknown(call.err[2]))

C14_Terminates == call.status # "Diverged"

\* C15: in every reachable state no directed cycle, self-loop included, exists
\* among the edges of the graph, whatever their kinds.
C15_GraphAcyclic == Acyclic(edges)

\* a successful call whose two roots got no Follows edge because it would have
\* closed a cycle
FollowsDropped ==
    /\ Ok
    /\ Len(call.roots) = 2
    /\ node_bucket[call.roots[1]] # node_bucket[call.roots[2]]
    /\ ~find_edge(edges, node_bucket[call.roots[1]], node_bucket[call.roots[2]])
    /\ HasPath(edges, node_bucket[call.roots[2]], node_bucket[call.roots[1]])

C15_Witness == FollowsDropped /\ Len(call.before) > 0 /\ NewEdges # {}

\* C16: within one resolve call no canonical identity is expanded twice.
NoDup(s) == \A i, j \in 1..Len(s) : i # j => s[i] # s[j]

C16_ExpandedOnce == NoDup(call.expanded)

\* C17: a resolve call that returns an error leaves the edges that were in the
\* graph where they were, keeps the edges it inserted for the declarations of
\* the units it expanded before the failing one, adds no Follows edge, and
\* leaves the registry, the alias mapping and the relationship lists alone.
IsPrefix(s, t) == Len(s) <= Len(t) /\ SubSeq(t, 1, Len(s)) = s

\* the units a failed call expanded to the end: all it expanded when the
\* failing step is the lookup of a popped key, all but the last otherwise
Completed(c) ==
    IF c.err[1] = "DependencyNotFound" THEN c.expanded
    ELSE SubSeq(c.expanded, 1, Len(c.expanded) - 1)

C17_NoRollback ==
    [][(ncalls' = ncalls + 1 /\ call'.status = "Err") =>
         /\ IsPrefix(edges, edges')
         /\ \A i \in (Len(edges) + 1)..Len(edges') : edges'[i].kind # Follows
         /\ \A n \in Range(Completed(call')) : \A k \in KeysNamed(n) :
               find_edge(edges', node_bucket[k], node_bucket[n])
         /\ UNCHANGED <<nodes, node_bucket, provides_map, requirements,
                        suggestions, dep_map>>]_vars

C17_Witness ==
    /\ call.status = "Err"
    /\ Len(call.before) > 0
    /\ NewEdges # {}
    /\ Completed(call) # <<>>

\* C18: in every reachable state no two edges of the graph have the same
\* source, target and kind.
C18_NoDuplicateEdges ==
    \A i, j \in 1..Len(edges) : i # j => edges[i] # edges[j]

C18_Witness ==
    /\ Ok
    /\ Len(call.roots) = 2
    /\ \E n \in Range(call.expanded) : Repeated(requirements[n]) # {}
    /\ HasPath(edges, node_bucket[call.roots[1]], node_bucket[call.roots[2]])
    /\ \A i \in 1..Len(edges) : edges[i].kind = Requires

\* C19: after a successful resolve, a unit it expanded that declares one
\* identity both as a requirement and as a suggestion has a Requires edge and
\* a Suggests edge from that identity's node to its own node.
HasEdge(a, b, w) == \E i \in 1..Len(edges) : edges[i] = Edge(a, b, w)

C19_BothKinds ==
    Ok => \A n \in Range(call.expanded) :
            \A k \in Range(requirements[n]) : \A h \in Range(suggestions[n]) :
               (Known(k) /\ Known(h) /\ Canon(k) = Canon(h)) =>
                  /\ HasEdge(node_bucket[k], node_bucket[n], Requires)
                  /\ HasEdge(node_bucket[h], node_bucket[n], Suggests)

\* C20: the graph holds one node for each registered identity and no other,
\* and a step never removes a node.
C20_OneNodePerIdentity ==
    [][/\ IsPrefix(nodes, nodes')
       /\ NoDup(nodes')
       /\ Range(nodes') = DOMAIN dep_map']_vars

\* C21: an order returned by resolve holds no identity twice, whatever the
\* root list and however the state was reached, an identity registered more
\* than once included.
C21_OrderDistinct == Ok => NoDup(call.order)

\* C22: in every reachable state each identity the alias mapping resolves a
\* key to has a requirement list and a suggestion list on file; no resolve
\* call returns RequirementsNotFound or SuggestionsNotFound; an error that
\* carries an unregistered key as its subject is DependencyNotFound for a
\* root, and a call whose first root is unregistered returns it.
ListsOnFile ==
    \A k \in DOMAIN provides_map :
       /\ provides_map[k] \in DOMAIN requirements
       /\ provides_map[k] \in DOMAIN suggestions

C22_ListsOnFile ==
    /\ ListsOnFile
    /\ call.status = "Err" =>
          /\ call.err[1] \notin {"RequirementsNotFound", "SuggestionsNotFound"}
          /\ Unknown(call.err[2]) =>
                (call.err[1] = "DependencyNotFound" /\ call.err[2] \in Range(call.roots))
    /\ (call.status # "None" /\ call.roots # <<>> /\ Unknown(call.roots[1])) =>
          (call.status = "Err" /\ call.err = <<"DependencyNotFound", call.roots[1]>>)

C22_Witness ==
    /\ call.status = "Err"
    /\ call.err[1] = "DependencyNotFound"
    /\ call.expanded # <<>>
    /\ reregistered # {}
    /\ realiased # {}

====
